---- MODULE Spec2Model ----
(***************************************************************************)
(* AI Waste Sorter: the App component (src/App.tsx), the Gemini service    *)
(* function classifyWasteImage (services/geminiService) and the            *)
(* WasteCategory enum (types).                                             *)
(*                                                                         *)
(* A JavaScript string is modelled as what it is, the sequence of its      *)
(* UTF-16 code units, each a number in 0..65535, so that trim,             *)
(* toLowerCase, includes, startsWith and split are computed as the         *)
(* language defines them; a comment beside each literal gives its text.    *)
(* null/undefined is the value Null, which is no sequence of code units;   *)
(* an array of strings is a sequence that starts with ArrayTag and goes on *)
(* with its elements.                                                      *)
(***************************************************************************)
EXTENDS Integers, Sequences, FiniteSets, Bags, TLC

\* ---------------------------------------------------------------- bounds
\* Longest model response, in tokens, given to classifyWasteImage on its own.
MaxTokens == 2
\* Longest model response, in tokens, the running App receives.
MaxRespTokens == 1
\* Longest model response, in tokens, under FairSpec.
MaxFairTokens == 1
\* FileReaders of the preview that may be pending at once.
MaxPendingReads == 2

\* ------------------------------------------------------- string functions
Null == <<-1>>

ArrayTag == <<-2>>

\* An array of strings: [] is Arr(<<>>).
Arr(items) == ArrayTag \o items

IsArray(v) == Len(v) >= 1 /\ v[1] = ArrayTag[1]

IsString(v) == v # Null /\ ~IsArray(v)

\* JavaScript truthiness of a string, array or null: only null and the empty
\* string are falsy.
Truthy(v) == v # Null /\ v # <<>>

\* The characters String.prototype.trim removes: ECMAScript WhiteSpace and
\* LineTerminator (U+0009..U+000D, U+0020, U+00A0, U+1680, U+2000..U+200A,
\* U+2028, U+2029, U+202F, U+205F, U+3000, U+FEFF).
WhiteSpace ==
    (9..13) \cup {32, 160, 5760} \cup (8192..8202) \cup {8232, 8233, 8239, 8287, 12288, 65279}

\* ------------------------------------------- String.prototype.toLowerCase
\* toLowerCase maps the code points of the string by the Unicode Default
\* Case Conversion: the simple lower-case mapping of each character, except
\* U+0130, which becomes U+0069 U+0307, and U+03A3, which becomes U+03C2 in
\* the Final_Sigma context and U+03C3 elsewhere.  The three tables below
\* hold the character data of Unicode 17.0.

\* The simple lower-case mappings, as <<first, last, step, delta>>: the code
\* points first, first + step, ..., last are mapped to themselves + delta.
LowerRules == <<
    <<65, 90, 1, 32>>, <<192, 214, 1, 32>>, <<216, 222, 1, 32>>,
    <<256, 302, 2, 1>>, <<306, 310, 2, 1>>, <<313, 327, 2, 1>>,
    <<330, 374, 2, 1>>, <<376, 376, 1, -121>>, <<377, 381, 2, 1>>,
    <<385, 385, 1, 210>>, <<386, 388, 2, 1>>, <<390, 390, 1, 206>>,
    <<391, 391, 1, 1>>, <<393, 394, 1, 205>>, <<395, 395, 1, 1>>,
    <<398, 398, 1, 79>>, <<399, 399, 1, 202>>, <<400, 400, 1, 203>>,
    <<401, 401, 1, 1>>, <<403, 403, 1, 205>>, <<404, 404, 1, 207>>,
    <<406, 406, 1, 211>>, <<407, 407, 1, 209>>, <<408, 408, 1, 1>>,
    <<412, 412, 1, 211>>, <<413, 413, 1, 213>>, <<415, 415, 1, 214>>,
    <<416, 420, 2, 1>>, <<422, 422, 1, 218>>, <<423, 423, 1, 1>>,
    <<425, 425, 1, 218>>, <<428, 428, 1, 1>>, <<430, 430, 1, 218>>,
    <<431, 431, 1, 1>>, <<433, 434, 1, 217>>, <<435, 437, 2, 1>>,
    <<439, 439, 1, 219>>, <<440, 440, 1, 1>>, <<444, 444, 1, 1>>,
    <<452, 452, 1, 2>>, <<453, 453, 1, 1>>, <<455, 455, 1, 2>>,
    <<456, 456, 1, 1>>, <<458, 458, 1, 2>>, <<459, 475, 2, 1>>,
    <<478, 494, 2, 1>>, <<497, 497, 1, 2>>, <<498, 500, 2, 1>>,
    <<502, 502, 1, -97>>, <<503, 503, 1, -56>>, <<504, 542, 2, 1>>,
    <<544, 544, 1, -130>>, <<546, 562, 2, 1>>, <<570, 570, 1, 10795>>,
    <<571, 571, 1, 1>>, <<573, 573, 1, -163>>, <<574, 574, 1, 10792>>,
    <<577, 577, 1, 1>>, <<579, 579, 1, -195>>, <<580, 580, 1, 69>>,
    <<581, 581, 1, 71>>, <<582, 590, 2, 1>>, <<880, 882, 2, 1>>,
    <<886, 886, 1, 1>>, <<895, 895, 1, 116>>, <<902, 902, 1, 38>>,
    <<904, 906, 1, 37>>, <<908, 908, 1, 64>>, <<910, 911, 1, 63>>,
    <<913, 929, 1, 32>>, <<931, 939, 1, 32>>, <<975, 975, 1, 8>>,
    <<984, 1006, 2, 1>>, <<1012, 1012, 1, -60>>, <<1015, 1015, 1, 1>>,
    <<1017, 1017, 1, -7>>, <<1018, 1018, 1, 1>>, <<1021, 1023, 1, -130>>,
    <<1024, 1039, 1, 80>>, <<1040, 1071, 1, 32>>, <<1120, 1152, 2, 1>>,
    <<1162, 1214, 2, 1>>, <<1216, 1216, 1, 15>>, <<1217, 1229, 2, 1>>,
    <<1232, 1326, 2, 1>>, <<1329, 1366, 1, 48>>, <<4256, 4293, 1, 7264>>,
    <<4295, 4295, 1, 7264>>, <<4301, 4301, 1, 7264>>, <<5024, 5103, 1, 38864>>,
    <<5104, 5109, 1, 8>>, <<7305, 7305, 1, 1>>, <<7312, 7354, 1, -3008>>,
    <<7357, 7359, 1, -3008>>, <<7680, 7828, 2, 1>>, <<7838, 7838, 1, -7615>>,
    <<7840, 7934, 2, 1>>, <<7944, 7951, 1, -8>>, <<7960, 7965, 1, -8>>,
    <<7976, 7983, 1, -8>>, <<7992, 7999, 1, -8>>, <<8008, 8013, 1, -8>>,
    <<8025, 8031, 2, -8>>, <<8040, 8047, 1, -8>>, <<8072, 8079, 1, -8>>,
    <<8088, 8095, 1, -8>>, <<8104, 8111, 1, -8>>, <<8120, 8121, 1, -8>>,
    <<8122, 8123, 1, -74>>, <<8124, 8124, 1, -9>>, <<8136, 8139, 1, -86>>,
    <<8140, 8140, 1, -9>>, <<8152, 8153, 1, -8>>, <<8154, 8155, 1, -100>>,
    <<8168, 8169, 1, -8>>, <<8170, 8171, 1, -112>>, <<8172, 8172, 1, -7>>,
    <<8184, 8185, 1, -128>>, <<8186, 8187, 1, -126>>, <<8188, 8188, 1, -9>>,
    <<8486, 8486, 1, -7517>>, <<8490, 8490, 1, -8383>>, <<8491, 8491, 1, -8262>>,
    <<8498, 8498, 1, 28>>, <<8544, 8559, 1, 16>>, <<8579, 8579, 1, 1>>,
    <<9398, 9423, 1, 26>>, <<11264, 11311, 1, 48>>, <<11360, 11360, 1, 1>>,
    <<11362, 11362, 1, -10743>>, <<11363, 11363, 1, -3814>>, <<11364, 11364, 1, -10727>>,
    <<11367, 11371, 2, 1>>, <<11373, 11373, 1, -10780>>, <<11374, 11374, 1, -10749>>,
    <<11375, 11375, 1, -10783>>, <<11376, 11376, 1, -10782>>, <<11378, 11378, 1, 1>>,
    <<11381, 11381, 1, 1>>, <<11390, 11391, 1, -10815>>, <<11392, 11490, 2, 1>>,
    <<11499, 11501, 2, 1>>, <<11506, 11506, 1, 1>>, <<42560, 42604, 2, 1>>,
    <<42624, 42650, 2, 1>>, <<42786, 42798, 2, 1>>, <<42802, 42862, 2, 1>>,
    <<42873, 42875, 2, 1>>, <<42877, 42877, 1, -35332>>, <<42878, 42886, 2, 1>>,
    <<42891, 42891, 1, 1>>, <<42893, 42893, 1, -42280>>, <<42896, 42898, 2, 1>>,
    <<42902, 42920, 2, 1>>, <<42922, 42922, 1, -42308>>, <<42923, 42923, 1, -42319>>,
    <<42924, 42924, 1, -42315>>, <<42925, 42925, 1, -42305>>, <<42926, 42926, 1, -42308>>,
    <<42928, 42928, 1, -42258>>, <<42929, 42929, 1, -42282>>, <<42930, 42930, 1, -42261>>,
    <<42931, 42931, 1, 928>>, <<42932, 42946, 2, 1>>, <<42948, 42948, 1, -48>>,
    <<42949, 42949, 1, -42307>>, <<42950, 42950, 1, -35384>>, <<42951, 42953, 2, 1>>,
    <<42955, 42955, 1, -42343>>, <<42956, 42970, 2, 1>>, <<42972, 42972, 1, -42561>>,
    <<42997, 42997, 1, 1>>, <<65313, 65338, 1, 32>>, <<66560, 66599, 1, 40>>,
    <<66736, 66771, 1, 40>>, <<66928, 66964, 2, 39>>, <<66929, 66938, 1, 39>>,
    <<66941, 66954, 1, 39>>, <<66957, 66962, 1, 39>>, <<66965, 66965, 1, 39>>,
    <<68736, 68786, 1, 64>>, <<68944, 68965, 1, 32>>, <<71840, 71871, 1, 32>>,
    <<93760, 93791, 1, 32>>, <<93856, 93880, 1, 27>>, <<125184, 125217, 1, 34>> >>

\* The code points with the property Cased that are not Case_Ignorable, as
\* ranges <<first, last>>.
CasedRanges == <<
    <<65, 90>>, <<97, 122>>, <<170, 170>>, <<181, 181>>, <<186, 186>>,
    <<192, 214>>, <<216, 246>>, <<248, 442>>, <<444, 447>>, <<452, 659>>,
    <<662, 687>>, <<880, 883>>, <<886, 887>>, <<891, 893>>, <<895, 895>>,
    <<902, 902>>, <<904, 906>>, <<908, 908>>, <<910, 929>>, <<931, 1013>>,
    <<1015, 1153>>, <<1162, 1327>>, <<1329, 1366>>, <<1376, 1416>>, <<4256, 4293>>,
    <<4295, 4295>>, <<4301, 4301>>, <<4304, 4346>>, <<4349, 4351>>, <<5024, 5109>>,
    <<5112, 5117>>, <<7296, 7306>>, <<7312, 7354>>, <<7357, 7359>>, <<7424, 7467>>,
    <<7531, 7543>>, <<7545, 7578>>, <<7680, 7957>>, <<7960, 7965>>, <<7968, 8005>>,
    <<8008, 8013>>, <<8016, 8023>>, <<8025, 8025>>, <<8027, 8027>>, <<8029, 8029>>,
    <<8031, 8061>>, <<8064, 8116>>, <<8118, 8124>>, <<8126, 8126>>, <<8130, 8132>>,
    <<8134, 8140>>, <<8144, 8147>>, <<8150, 8155>>, <<8160, 8172>>, <<8178, 8180>>,
    <<8182, 8188>>, <<8450, 8450>>, <<8455, 8455>>, <<8458, 8467>>, <<8469, 8469>>,
    <<8473, 8477>>, <<8484, 8484>>, <<8486, 8486>>, <<8488, 8488>>, <<8490, 8493>>,
    <<8495, 8500>>, <<8505, 8505>>, <<8508, 8511>>, <<8517, 8521>>, <<8526, 8526>>,
    <<8544, 8575>>, <<8579, 8580>>, <<9398, 9449>>, <<11264, 11387>>, <<11390, 11492>>,
    <<11499, 11502>>, <<11506, 11507>>, <<11520, 11557>>, <<11559, 11559>>, <<11565, 11565>>,
    <<42560, 42605>>, <<42624, 42651>>, <<42786, 42863>>, <<42865, 42887>>, <<42891, 42894>>,
    <<42896, 42972>>, <<42997, 42998>>, <<43002, 43002>>, <<43824, 43866>>, <<43872, 43880>>,
    <<43888, 43967>>, <<64256, 64262>>, <<64275, 64279>>, <<65313, 65338>>, <<65345, 65370>>,
    <<66560, 66639>>, <<66736, 66771>>, <<66776, 66811>>, <<66928, 66938>>, <<66940, 66954>>,
    <<66956, 66962>>, <<66964, 66965>>, <<66967, 66977>>, <<66979, 66993>>, <<66995, 67001>>,
    <<67003, 67004>>, <<68736, 68786>>, <<68800, 68850>>, <<68944, 68965>>, <<68976, 68997>>,
    <<71840, 71903>>, <<93760, 93823>>, <<93856, 93880>>, <<93883, 93907>>, <<119808, 119892>>,
    <<119894, 119964>>, <<119966, 119967>>, <<119970, 119970>>, <<119973, 119974>>, <<119977, 119980>>,
    <<119982, 119993>>, <<119995, 119995>>, <<119997, 120003>>, <<120005, 120069>>, <<120071, 120074>>,
    <<120077, 120084>>, <<120086, 120092>>, <<120094, 120121>>, <<120123, 120126>>, <<120128, 120132>>,
    <<120134, 120134>>, <<120138, 120144>>, <<120146, 120485>>, <<120488, 120512>>, <<120514, 120538>>,
    <<120540, 120570>>, <<120572, 120596>>, <<120598, 120628>>, <<120630, 120654>>, <<120656, 120686>>,
    <<120688, 120712>>, <<120714, 120744>>, <<120746, 120770>>, <<120772, 120779>>, <<122624, 122633>>,
    <<122635, 122654>>, <<122661, 122666>>, <<125184, 125251>>, <<127280, 127305>>, <<127312, 127337>>,
    <<127344, 127369>> >>

\* The code points with the property Case_Ignorable, as ranges <<first, last>>.
CaseIgnorableRanges == <<
    <<39, 39>>, <<46, 46>>, <<58, 58>>, <<94, 94>>, <<96, 96>>,
    <<168, 168>>, <<173, 173>>, <<175, 175>>, <<180, 180>>, <<183, 184>>,
    <<688, 879>>, <<884, 885>>, <<890, 890>>, <<900, 901>>, <<903, 903>>,
    <<1155, 1161>>, <<1369, 1369>>, <<1375, 1375>>, <<1425, 1469>>, <<1471, 1471>>,
    <<1473, 1474>>, <<1476, 1477>>, <<1479, 1479>>, <<1524, 1524>>, <<1536, 1541>>,
    <<1552, 1562>>, <<1564, 1564>>, <<1600, 1600>>, <<1611, 1631>>, <<1648, 1648>>,
    <<1750, 1757>>, <<1759, 1768>>, <<1770, 1773>>, <<1807, 1807>>, <<1809, 1809>>,
    <<1840, 1866>>, <<1958, 1968>>, <<2027, 2037>>, <<2042, 2042>>, <<2045, 2045>>,
    <<2070, 2093>>, <<2137, 2139>>, <<2184, 2184>>, <<2192, 2193>>, <<2199, 2207>>,
    <<2249, 2306>>, <<2362, 2362>>, <<2364, 2364>>, <<2369, 2376>>, <<2381, 2381>>,
    <<2385, 2391>>, <<2402, 2403>>, <<2417, 2417>>, <<2433, 2433>>, <<2492, 2492>>,
    <<2497, 2500>>, <<2509, 2509>>, <<2530, 2531>>, <<2558, 2558>>, <<2561, 2562>>,
    <<2620, 2620>>, <<2625, 2626>>, <<2631, 2632>>, <<2635, 2637>>, <<2641, 2641>>,
    <<2672, 2673>>, <<2677, 2677>>, <<2689, 2690>>, <<2748, 2748>>, <<2753, 2757>>,
    <<2759, 2760>>, <<2765, 2765>>, <<2786, 2787>>, <<2810, 2815>>, <<2817, 2817>>,
    <<2876, 2876>>, <<2879, 2879>>, <<2881, 2884>>, <<2893, 2893>>, <<2901, 2902>>,
    <<2914, 2915>>, <<2946, 2946>>, <<3008, 3008>>, <<3021, 3021>>, <<3072, 3072>>,
    <<3076, 3076>>, <<3132, 3132>>, <<3134, 3136>>, <<3142, 3144>>, <<3146, 3149>>,
    <<3157, 3158>>, <<3170, 3171>>, <<3201, 3201>>, <<3260, 3260>>, <<3263, 3263>>,
    <<3270, 3270>>, <<3276, 3277>>, <<3298, 3299>>, <<3328, 3329>>, <<3387, 3388>>,
    <<3393, 3396>>, <<3405, 3405>>, <<3426, 3427>>, <<3457, 3457>>, <<3530, 3530>>,
    <<3538, 3540>>, <<3542, 3542>>, <<3633, 3633>>, <<3636, 3642>>, <<3654, 3662>>,
    <<3761, 3761>>, <<3764, 3772>>, <<3782, 3782>>, <<3784, 3790>>, <<3864, 3865>>,
    <<3893, 3893>>, <<3895, 3895>>, <<3897, 3897>>, <<3953, 3966>>, <<3968, 3972>>,
    <<3974, 3975>>, <<3981, 3991>>, <<3993, 4028>>, <<4038, 4038>>, <<4141, 4144>>,
    <<4146, 4151>>, <<4153, 4154>>, <<4157, 4158>>, <<4184, 4185>>, <<4190, 4192>>,
    <<4209, 4212>>, <<4226, 4226>>, <<4229, 4230>>, <<4237, 4237>>, <<4253, 4253>>,
    <<4348, 4348>>, <<4957, 4959>>, <<5906, 5908>>, <<5938, 5939>>, <<5970, 5971>>,
    <<6002, 6003>>, <<6068, 6069>>, <<6071, 6077>>, <<6086, 6086>>, <<6089, 6099>>,
    <<6103, 6103>>, <<6109, 6109>>, <<6155, 6159>>, <<6211, 6211>>, <<6277, 6278>>,
    <<6313, 6313>>, <<6432, 6434>>, <<6439, 6440>>, <<6450, 6450>>, <<6457, 6459>>,
    <<6679, 6680>>, <<6683, 6683>>, <<6742, 6742>>, <<6744, 6750>>, <<6752, 6752>>,
    <<6754, 6754>>, <<6757, 6764>>, <<6771, 6780>>, <<6783, 6783>>, <<6823, 6823>>,
    <<6832, 6877>>, <<6880, 6891>>, <<6912, 6915>>, <<6964, 6964>>, <<6966, 6970>>,
    <<6972, 6972>>, <<6978, 6978>>, <<7019, 7027>>, <<7040, 7041>>, <<7074, 7077>>,
    <<7080, 7081>>, <<7083, 7085>>, <<7142, 7142>>, <<7144, 7145>>, <<7149, 7149>>,
    <<7151, 7153>>, <<7212, 7219>>, <<7222, 7223>>, <<7288, 7293>>, <<7376, 7378>>,
    <<7380, 7392>>, <<7394, 7400>>, <<7405, 7405>>, <<7412, 7412>>, <<7416, 7417>>,
    <<7468, 7530>>, <<7544, 7544>>, <<7579, 7679>>, <<8125, 8125>>, <<8127, 8129>>,
    <<8141, 8143>>, <<8157, 8159>>, <<8173, 8175>>, <<8189, 8190>>, <<8203, 8207>>,
    <<8216, 8217>>, <<8228, 8228>>, <<8231, 8231>>, <<8234, 8238>>, <<8288, 8292>>,
    <<8294, 8303>>, <<8305, 8305>>, <<8319, 8319>>, <<8336, 8348>>, <<8400, 8432>>,
    <<11388, 11389>>, <<11503, 11505>>, <<11631, 11631>>, <<11647, 11647>>, <<11744, 11775>>,
    <<11823, 11823>>, <<12293, 12293>>, <<12330, 12333>>, <<12337, 12341>>, <<12347, 12347>>,
    <<12441, 12446>>, <<12540, 12542>>, <<40981, 40981>>, <<42232, 42237>>, <<42508, 42508>>,
    <<42607, 42610>>, <<42612, 42621>>, <<42623, 42623>>, <<42652, 42655>>, <<42736, 42737>>,
    <<42752, 42785>>, <<42864, 42864>>, <<42888, 42890>>, <<42993, 42996>>, <<43000, 43001>>,
    <<43010, 43010>>, <<43014, 43014>>, <<43019, 43019>>, <<43045, 43046>>, <<43052, 43052>>,
    <<43204, 43205>>, <<43232, 43249>>, <<43263, 43263>>, <<43302, 43309>>, <<43335, 43345>>,
    <<43392, 43394>>, <<43443, 43443>>, <<43446, 43449>>, <<43452, 43453>>, <<43471, 43471>>,
    <<43493, 43494>>, <<43561, 43566>>, <<43569, 43570>>, <<43573, 43574>>, <<43587, 43587>>,
    <<43596, 43596>>, <<43632, 43632>>, <<43644, 43644>>, <<43696, 43696>>, <<43698, 43700>>,
    <<43703, 43704>>, <<43710, 43711>>, <<43713, 43713>>, <<43741, 43741>>, <<43756, 43757>>,
    <<43763, 43764>>, <<43766, 43766>>, <<43867, 43871>>, <<43881, 43883>>, <<44005, 44005>>,
    <<44008, 44008>>, <<44013, 44013>>, <<64286, 64286>>, <<64434, 64450>>, <<65024, 65039>>,
    <<65043, 65043>>, <<65056, 65071>>, <<65106, 65106>>, <<65109, 65109>>, <<65279, 65279>>,
    <<65287, 65287>>, <<65294, 65294>>, <<65306, 65306>>, <<65342, 65342>>, <<65344, 65344>>,
    <<65392, 65392>>, <<65438, 65439>>, <<65507, 65507>>, <<65529, 65531>>, <<66045, 66045>>,
    <<66272, 66272>>, <<66422, 66426>>, <<67456, 67461>>, <<67463, 67504>>, <<67506, 67514>>,
    <<68097, 68099>>, <<68101, 68102>>, <<68108, 68111>>, <<68152, 68154>>, <<68159, 68159>>,
    <<68325, 68326>>, <<68900, 68903>>, <<68942, 68942>>, <<68969, 68973>>, <<68975, 68975>>,
    <<69291, 69292>>, <<69317, 69317>>, <<69370, 69375>>, <<69446, 69456>>, <<69506, 69509>>,
    <<69633, 69633>>, <<69688, 69702>>, <<69744, 69744>>, <<69747, 69748>>, <<69759, 69761>>,
    <<69811, 69814>>, <<69817, 69818>>, <<69821, 69821>>, <<69826, 69826>>, <<69837, 69837>>,
    <<69888, 69890>>, <<69927, 69931>>, <<69933, 69940>>, <<70003, 70003>>, <<70016, 70017>>,
    <<70070, 70078>>, <<70089, 70092>>, <<70095, 70095>>, <<70191, 70193>>, <<70196, 70196>>,
    <<70198, 70199>>, <<70206, 70206>>, <<70209, 70209>>, <<70367, 70367>>, <<70371, 70378>>,
    <<70400, 70401>>, <<70459, 70460>>, <<70464, 70464>>, <<70502, 70508>>, <<70512, 70516>>,
    <<70587, 70592>>, <<70606, 70606>>, <<70608, 70608>>, <<70610, 70610>>, <<70625, 70626>>,
    <<70712, 70719>>, <<70722, 70724>>, <<70726, 70726>>, <<70750, 70750>>, <<70835, 70840>>,
    <<70842, 70842>>, <<70847, 70848>>, <<70850, 70851>>, <<71090, 71093>>, <<71100, 71101>>,
    <<71103, 71104>>, <<71132, 71133>>, <<71219, 71226>>, <<71229, 71229>>, <<71231, 71232>>,
    <<71339, 71339>>, <<71341, 71341>>, <<71344, 71349>>, <<71351, 71351>>, <<71453, 71453>>,
    <<71455, 71455>>, <<71458, 71461>>, <<71463, 71467>>, <<71727, 71735>>, <<71737, 71738>>,
    <<71995, 71996>>, <<71998, 71998>>, <<72003, 72003>>, <<72148, 72151>>, <<72154, 72155>>,
    <<72160, 72160>>, <<72193, 72202>>, <<72243, 72248>>, <<72251, 72254>>, <<72263, 72263>>,
    <<72273, 72278>>, <<72281, 72283>>, <<72330, 72342>>, <<72344, 72345>>, <<72544, 72544>>,
    <<72546, 72548>>, <<72550, 72550>>, <<72752, 72758>>, <<72760, 72765>>, <<72767, 72767>>,
    <<72850, 72871>>, <<72874, 72880>>, <<72882, 72883>>, <<72885, 72886>>, <<73009, 73014>>,
    <<73018, 73018>>, <<73020, 73021>>, <<73023, 73029>>, <<73031, 73031>>, <<73104, 73105>>,
    <<73109, 73109>>, <<73111, 73111>>, <<73177, 73177>>, <<73459, 73460>>, <<73472, 73473>>,
    <<73526, 73530>>, <<73536, 73536>>, <<73538, 73538>>, <<73562, 73562>>, <<78896, 78912>>,
    <<78919, 78933>>, <<90398, 90409>>, <<90413, 90415>>, <<92912, 92916>>, <<92976, 92982>>,
    <<92992, 92995>>, <<93504, 93506>>, <<93547, 93548>>, <<94031, 94031>>, <<94095, 94111>>,
    <<94176, 94177>>, <<94179, 94180>>, <<94194, 94195>>, <<110576, 110579>>, <<110581, 110587>>,
    <<110589, 110590>>, <<113821, 113822>>, <<113824, 113827>>, <<118528, 118573>>, <<118576, 118598>>,
    <<119143, 119145>>, <<119155, 119170>>, <<119173, 119179>>, <<119210, 119213>>, <<119362, 119364>>,
    <<121344, 121398>>, <<121403, 121452>>, <<121461, 121461>>, <<121476, 121476>>, <<121499, 121503>>,
    <<121505, 121519>>, <<122880, 122886>>, <<122888, 122904>>, <<122907, 122913>>, <<122915, 122916>>,
    <<122918, 122922>>, <<122928, 122989>>, <<123023, 123023>>, <<123184, 123197>>, <<123566, 123566>>,
    <<123628, 123631>>, <<124139, 124143>>, <<124398, 124399>>, <<124643, 124643>>, <<124646, 124646>>,
    <<124654, 124655>>, <<124661, 124661>>, <<124671, 124671>>, <<125136, 125142>>, <<125252, 125259>>,
    <<127995, 127999>>, <<917505, 917505>>, <<917536, 917631>>, <<917760, 917999>> >>

InRanges(c, ranges) == \E i \in 1..Len(ranges) : ranges[i][1] <= c /\ c <= ranges[i][2]

Cased(c) == InRanges(c, CasedRanges)

CaseIgnorable(c) == InRanges(c, CaseIgnorableRanges)

IsHighSurrogate(u) == 55296 <= u /\ u <= 56319

IsLowSurrogate(u) == 56320 <= u /\ u <= 57343

\* The code points of a sequence of code units: a surrogate pair is one code
\* point, a lone surrogate stands for itself.
RECURSIVE CodePoints(_)
CodePoints(s) ==
    IF s = <<>> THEN <<>>
    ELSE IF Len(s) >= 2 /\ IsHighSurrogate(s[1]) /\ IsLowSurrogate(s[2])
    THEN <<65536 + (s[1] - 55296) * 1024 + (s[2] - 56320)>> \o CodePoints(SubSeq(s, 3, Len(s)))
    ELSE <<s[1]>> \o CodePoints(Tail(s))

\* The code units of a code point.
CodeUnits(c) ==
    IF c >= 65536
    THEN <<55296 + ((c - 65536) \div 1024), 56320 + ((c - 65536) % 1024)>>
    ELSE <<c>>

LowerCodePoint(c) ==
    IF c < 128 THEN (IF 65 <= c /\ c <= 90 THEN c + 32 ELSE c)
    ELSE IF \E i \in 1..Len(LowerRules) :
                /\ LowerRules[i][1] <= c /\ c <= LowerRules[i][2]
                /\ (c - LowerRules[i][1]) % LowerRules[i][3] = 0
    THEN LET i == CHOOSE i \in 1..Len(LowerRules) :
                      /\ LowerRules[i][1] <= c /\ c <= LowerRules[i][2]
                      /\ (c - LowerRules[i][1]) % LowerRules[i][3] = 0
         IN  c + LowerRules[i][4]
    ELSE c

\* Final_Sigma: the code point at i is preceded by a cased letter and then
\* zero or more case-ignorable characters, and is not followed by zero or
\* more case-ignorable characters and then a cased letter.
FinalSigma(cps, i) ==
    /\ \E j \in 1..(i - 1) :
           Cased(cps[j]) /\ \A k \in (j + 1)..(i - 1) : CaseIgnorable(cps[k])
    /\ ~\E j \in (i + 1)..Len(cps) :
           Cased(cps[j]) /\ \A k \in (i + 1)..(j - 1) : CaseIgnorable(cps[k])

\* The code units the code point at i becomes.
LowerAt(cps, i) ==
    IF cps[i] = 931 THEN (IF FinalSigma(cps, i) THEN <<962>> ELSE <<963>>)
    ELSE IF cps[i] = 304 THEN <<105, 775>>
    ELSE CodeUnits(LowerCodePoint(cps[i]))

RECURSIVE LowerFrom(_, _)
LowerFrom(cps, i) ==
    IF i > Len(cps) THEN <<>> ELSE LowerAt(cps, i) \o LowerFrom(cps, i + 1)

toLowerCase(s) == LowerFrom(CodePoints(s), 1)

\* String.prototype.trim
trim(s) ==
    LET keep == {i \in 1..Len(s) : s[i] \notin WhiteSpace}
    IN  IF keep = {} THEN <<>>
        ELSE LET first == CHOOSE i \in keep : \A j \in keep : i <= j
                 last  == CHOOSE i \in keep : \A j \in keep : j <= i
             IN  SubSeq(s, first, last)

\* String.prototype.includes
includes(s, sub) ==
    \E i \in 0..(Len(s) - Len(sub)) : SubSeq(s, i + 1, i + Len(sub)) = sub

\* Array.prototype.includes
ArrayIncludes(array, item) == \E i \in 2..Len(array) : array[i] = item

\* String.prototype.startsWith
startsWith(s, prefix) ==
    Len(s) >= Len(prefix) /\ SubSeq(s, 1, Len(prefix)) = prefix

\* String.prototype.split with a one-character separator.
RECURSIVE split(_, _)
split(s, sep) ==
    IF \A i \in 1..Len(s) : s[i] # sep THEN <<s>>
    ELSE LET k == CHOOSE i \in 1..Len(s) :
                      s[i] = sep /\ \A j \in 1..(i - 1) : s[j] # sep
         IN  <<SubSeq(s, 1, k - 1)>> \o split(SubSeq(s, k + 1, Len(s)), sep)

\* ------------------------------------------------------------ types
PLASTIC   == (* "Plastic" *) <<80, 108, 97, 115, 116, 105, 99>>
PAPER     == (* "Paper" *) <<80, 97, 112, 101, 114>>
CARDBOARD == (* "Cardboard" *) <<67, 97, 114, 100, 98, 111, 97, 114, 100>>
GLASS     == (* "Glass" *) <<71, 108, 97, 115, 115>>
METAL     == (* "Metal" *) <<77, 101, 116, 97, 108>>
UNKNOWN   == (* "Unknown" *) <<85, 110, 107, 110, 111, 119, 110>>

\* Object.values(WasteCategory)
WasteCategory == {PLASTIC, PAPER, CARDBOARD, GLASS, METAL, UNKNOWN}

\* ------------------------------------------------------------ messages
MsgNoApiKey      == (* "API Key not configured." *) <<65, 80, 73, 32, 75, 101, 121, 32, 110, 111, 116, 32, 99, 111, 110, 102, 105, 103, 117, 114, 101, 100, 46>>
MsgApiError      == (* "Failed to classify image due to an API error." *) <<70, 97, 105, 108, 101, 100, 32, 116, 111, 32, 99, 108, 97, 115, 115, 105, 102, 121, 32, 105, 109, 97, 103, 101, 32, 100, 117, 101, 32, 116, 111, 32, 97, 110, 32, 65, 80, 73, 32, 101, 114, 114, 111, 114, 46>>
MsgInvalidApiKey == (* "Invalid API Key. Please check your configuration." *) <<73, 110, 118, 97, 108, 105, 100, 32, 65, 80, 73, 32, 75, 101, 121, 46, 32, 80, 108, 101, 97, 115, 101, 32, 99, 104, 101, 99, 107, 32, 121, 111, 117, 114, 32, 99, 111, 110, 102, 105, 103, 117, 114, 97, 116, 105, 111, 110, 46>>
MsgUnexpected    == (* "Unexpected category: " *) <<85, 110, 101, 120, 112, 101, 99, 116, 101, 100, 32, 99, 97, 116, 101, 103, 111, 114, 121, 58, 32>>
MsgApiKeyNotValid == (* "API key not valid" *) <<65, 80, 73, 32, 107, 101, 121, 32, 110, 111, 116, 32, 118, 97, 108, 105, 100>>
MsgNotImage      == (* "Please upload a valid image file (PNG, JPG, GIF, WEBP, etc.)." *) <<80, 108, 101, 97, 115, 101, 32, 117, 112, 108, 111, 97, 100, 32, 97, 32, 118, 97, 108, 105, 100, 32, 105, 109, 97, 103, 101, 32, 102, 105, 108, 101, 32, 40, 80, 78, 71, 44, 32, 74, 80, 71, 44, 32, 71, 73, 70, 44, 32, 87, 69, 66, 80, 44, 32, 101, 116, 99, 46, 41, 46>>
MsgSelectFirst   == (* "Please select an image file first." *) <<80, 108, 101, 97, 115, 101, 32, 115, 101, 108, 101, 99, 116, 32, 97, 110, 32, 105, 109, 97, 103, 101, 32, 102, 105, 108, 101, 32, 102, 105, 114, 115, 116, 46>>
MsgClassifyFailed == (* "An unexpected error occurred during classification." *) <<65, 110, 32, 117, 110, 101, 120, 112, 101, 99, 116, 101, 100, 32, 101, 114, 114, 111, 114, 32, 111, 99, 99, 117, 114, 114, 101, 100, 32, 100, 117, 114, 105, 110, 103, 32, 99, 108, 97, 115, 115, 105, 102, 105, 99, 97, 116, 105, 111, 110, 46>>

\* ------------------------------------------------ the model's responses
\* Pieces the sample response texts are built from.
Tokens ==
    { PLASTIC, PAPER, CARDBOARD, GLASS, METAL, UNKNOWN,
      (* "plastic" *) <<112, 108, 97, 115, 116, 105, 99>>,
      (* "PAPER" *) <<80, 65, 80, 69, 82>>,
      (* "card" *) <<99, 97, 114, 100>>,
      (* "board" *) <<98, 111, 97, 114, 100>>,
      (* "glass" *) <<103, 108, 97, 115, 115>>,
      (* "metal" *) <<109, 101, 116, 97, 108>>,
      (* " " *) <<32>>,
      (* "\n" *) <<10>>,
      (* "\f" *) <<12>>,
      (* "\u00A0" *) <<160>>,
      (* "PLAST\u0130C" *) <<80, 76, 65, 83, 84, 304, 67>>,
      (* "A\u0ECE\u03A3" *) <<65, 3790, 931>>,
      (* "x" *) <<120>> }

\* The pieces of the responses under FairSpec: a label, a keyword, and a
\* text that is neither.
FairTokens == { PLASTIC, (* "paper" *) <<112, 97, 112, 101, 114>>, (* "x" *) <<120>> }

\* The texts of at most n pieces.
RECURSIVE TextsOver(_, _)
TextsOver(tokens, n) ==
    IF n = 0 THEN {<<>>}
    ELSE LET shorter == TextsOver(tokens, n - 1)
         IN  shorter \cup {t \o k : t \in shorter, k \in tokens}

Texts(n) == TextsOver(Tokens, n)

\* Messages of the sample values generateContent throws.
ErrorMessages ==
    { <<>>, (* "fetch failed" *) <<102, 101, 116, 99, 104, 32, 102, 97, 105, 108, 101, 100>>, MsgApiKeyNotValid, (* "[400] API key not valid." *) <<91, 52, 48, 48, 93, 32, 65, 80, 73, 32, 107, 101, 121, 32, 110, 111, 116, 32, 118, 97, 108, 105, 100, 46>> }

\* A value thrown by generateContent: whether it is an Error, whether
\* typeof gives 'object' (and it is not null), whether it has a message
\* property, and the message: a string, an array of strings, or a value
\* without an includes method ("other": a number, null, undefined, {}).
Thrown(e, o, h, k, m) ==
    [kind |-> "throw", isError |-> e, isObject |-> o, hasMessage |-> h,
     messageKind |-> k, text |-> m]

ThrownValues ==
    {Thrown(e, TRUE, TRUE, "string", m) : e \in BOOLEAN, m \in ErrorMessages}
    \cup {Thrown(e, TRUE, TRUE, "array", a) :
              e \in BOOLEAN, a \in {Arr(<<>>), Arr(<<MsgApiKeyNotValid>>)}}
    \cup {Thrown(e, TRUE, TRUE, "other", Null) : e \in BOOLEAN}
    \cup {Thrown(FALSE, TRUE, FALSE, "none", Null),
          Thrown(FALSE, FALSE, TRUE, "string", MsgApiKeyNotValid),
          Thrown(FALSE, FALSE, FALSE, "none", Null)}

TextResponse(t) ==
    [kind |-> "text", isError |-> FALSE, isObject |-> FALSE, hasMessage |-> FALSE,
     messageKind |-> "none", text |-> t]

\* What one generateContent call may settle with.
Outcomes(n) == {TextResponse(t) : t \in Texts(n)} \cup ThrownValues

\* What generateContent may settle with in the running App, and when
\* classifyWasteImage is called on its own.
AppOutcomes == Outcomes(MaxRespTokens)
ServiceOutcomes == Outcomes(MaxTokens)
FairOutcomes ==
    {TextResponse(t) : t \in TextsOver(FairTokens, MaxFairTokens)} \cup ThrownValues

NoOutcome ==
    [kind |-> "none", isError |-> FALSE, isObject |-> FALSE, hasMessage |-> FALSE,
     messageKind |-> "none", text |-> <<>>]

\* -------------------------------------------- services/geminiService
\* What classifyWasteImage settles with: a returned { category, error? }
\* (error Null when the property is absent) or a rejection.
Returned(category, err) == [rejected |-> FALSE, category |-> category, error |-> err]
Rejected == [rejected |-> TRUE, category |-> Null, error |-> Null]
NoResult == [rejected |-> FALSE, category |-> Null, error |-> Null]

\* The keyword fallback, in the order of the source's if statements.
KeywordCategory_PaperLast(lowerCaseText) ==
    IF includes(lowerCaseText, (* "plastic" *) <<112, 108, 97, 115, 116, 105, 99>>) THEN PLASTIC
    ELSE IF includes(lowerCaseText, (* "cardboard" *) <<99, 97, 114, 100, 98, 111, 97, 114, 100>>) THEN CARDBOARD
    ELSE IF includes(lowerCaseText, (* "glass" *) <<103, 108, 97, 115, 115>>) THEN GLASS
    ELSE IF includes(lowerCaseText, (* "metal" *) <<109, 101, 116, 97, 108>>) THEN METAL
    ELSE IF includes(lowerCaseText, (* "paper" *) <<112, 97, 112, 101, 114>>) THEN PAPER
    ELSE Null

KeywordCategory(lowerCaseText) ==
    IF includes(lowerCaseText, (* "plastic" *) <<112, 108, 97, 115, 116, 105, 99>>) THEN PLASTIC
    ELSE IF includes(lowerCaseText, (* "paper" *) <<112, 97, 112, 101, 114>>) THEN PAPER
    ELSE IF includes(lowerCaseText, (* "cardboard" *) <<99, 97, 114, 100, 98, 111, 97, 114, 100>>) THEN CARDBOARD
    ELSE IF includes(lowerCaseText, (* "glass" *) <<103, 108, 97, 115, 115>>) THEN GLASS
    ELSE IF includes(lowerCaseText, (* "metal" *) <<109, 101, 116, 97, 108>>) THEN METAL
    ELSE Null

\* The try block after the response has arrived.
ClassifyText_Unchecked(responseText) ==
    LET classificationText == trim(responseText)
        lowerCaseText == toLowerCase(classificationText)
    IN  IF KeywordCategory(lowerCaseText) # Null \/ classificationText \in WasteCategory
        THEN Returned(classificationText, Null)
        ELSE Returned(UNKNOWN, MsgUnexpected \o classificationText)

ClassifyText_SilentUnknown(responseText) ==
    LET classificationText == trim(responseText)
    IN  IF classificationText \in WasteCategory
        THEN Returned(classificationText, Null)
        ELSE LET byKeyword == KeywordCategory(toLowerCase(classificationText))
             IN  IF byKeyword # Null THEN Returned(byKeyword, Null)
                 ELSE Returned(UNKNOWN, Null)

ClassifyText(responseText) ==
    LET classificationText == trim(responseText)
    IN  IF classificationText \in WasteCategory
        THEN Returned(classificationText, Null)
        ELSE LET byKeyword == KeywordCategory(toLowerCase(classificationText))
             IN  IF byKeyword # Null THEN Returned(byKeyword, Null)
                 ELSE Returned(UNKNOWN, MsgUnexpected \o classificationText)

\* The catch block: errorMessage is error.message for an Error; inside the
\* typeof error === 'object' && error !== null && 'message' in error guard,
\* err.message.includes("API key not valid") is the string's or the array's
\* includes, and throws a TypeError out of the catch block (the promise
\* rejects) when the message has no includes method.
CatchError(thrown) ==
    LET errorMessage == IF thrown.isError THEN thrown.text ELSE MsgApiError
    IN  IF thrown.isObject /\ thrown.hasMessage
        THEN IF thrown.messageKind = "string"
             THEN IF includes(thrown.text, MsgApiKeyNotValid)
                  THEN Returned(UNKNOWN, MsgInvalidApiKey)
                  ELSE Returned(UNKNOWN, errorMessage)
             ELSE IF thrown.messageKind = "array"
             THEN IF ArrayIncludes(thrown.text, MsgApiKeyNotValid)
                  THEN Returned(UNKNOWN, MsgInvalidApiKey)
                  ELSE Returned(UNKNOWN, errorMessage)
             ELSE Rejected
        ELSE Returned(UNKNOWN, errorMessage)

\* classifyWasteImage, given whether API_KEY is set and what generateContent
\* settles with.
classifyWasteImage(key, outcome) ==
    IF ~key THEN Returned(UNKNOWN, MsgNoApiKey)
    ELSE IF outcome.kind = "text" THEN ClassifyText(outcome.text)
    ELSE CatchError(outcome)

\* ----------------------------------------------------------- the files
\* A File the user may pick: its type, its content in base64, and whether a
\* FileReader can read it.
NoFile == [name |-> "none", type |-> <<>>, data |-> <<>>, readable |-> FALSE]

Files ==
    { [name |-> "a.png", type |-> (* "image/png" *) <<105, 109, 97, 103, 101, 47, 112, 110, 103>>,  data |-> (* "QQ==" *) <<81, 81, 61, 61>>, readable |-> TRUE],
      [name |-> "b.jpg", type |-> (* "image/jpeg" *) <<105, 109, 97, 103, 101, 47, 106, 112, 101, 103>>, data |-> (* "Qg==" *) <<81, 103, 61, 61>>, readable |-> TRUE],
      [name |-> "c.png", type |-> (* "image/png" *) <<105, 109, 97, 103, 101, 47, 112, 110, 103>>,  data |-> (* "Qw==" *) <<81, 119, 61, 61>>, readable |-> FALSE],
      [name |-> "d.txt", type |-> (* "text/plain" *) <<116, 101, 120, 116, 47, 112, 108, 97, 105, 110>>, data |-> (* "ZA==" *) <<90, 65, 61, 61>>, readable |-> TRUE] }

\* FileReader.readAsDataURL: reader.result once the read has ended.
readAsDataURL(file) ==
    IF file.readable
    THEN (* "data:" *) <<100, 97, 116, 97, 58>> \o file.type \o (* ";base64," *) <<59, 98, 97, 115, 101, 54, 52, 44>> \o file.data
    ELSE Null

\* The value imageToBase64 resolves with: the part after the first comma.
imageToBase64(file) ==
    LET parts == split(readAsDataURL(file), 44 (* "," *))
    IN  IF Len(parts) >= 2 THEN parts[2] ELSE Null

\* file.type.startsWith('image/')
IsImageType_Any(type) == TRUE

IsImageType(type) == startsWith(type, (* "image/" *) <<105, 109, 97, 103, 101, 47>>)

\* ------------------------------------------------------------- the state
VARIABLES
    selectedFile,            \* useState<File | null>
    imageBase64Preview,      \* useState<string | null>
    mimeType,                \* useState<string | null>
    classificationResult,    \* useState<WasteCategory | null>
    isLoading,               \* useState<boolean>
    error,                   \* useState<string | null>
    view,                    \* the elements the last render put on the page
    readers,                 \* bag of files whose preview FileReader is pending
    requests,                \* bag of handleClassify invocations awaiting a promise
    apiKey,                  \* whether process.env.API_KEY is set
    resultFile,              \* the file classificationResult was computed from
    lastEvent,               \* the handler that ran last, with what it was given
    call                     \* classifyWasteImage called on its own: input and result

vars == <<selectedFile, imageBase64Preview, mimeType, classificationResult, isLoading,
          error, view, readers, requests, apiKey, resultFile, lastEvent, call>>

appVars == <<selectedFile, imageBase64Preview, mimeType, classificationResult, isLoading,
             error, view, readers, requests, resultFile, lastEvent>>

\* The types of App's state: the six useState values and what is pending.
TypeOK ==
    /\ selectedFile \in Files \cup {NoFile}
    /\ imageBase64Preview \in {readAsDataURL(f) : f \in Files} \cup {Null}
    /\ mimeType \in {f.type : f \in Files} \cup {Null}
    /\ classificationResult \in WasteCategory \cup {Null}
    /\ isLoading \in BOOLEAN
    /\ error = Null \/ IsString(error) \/ IsArray(error)
    /\ IsABag(readers) /\ BagToSet(readers) \subseteq Files
    /\ IsABag(requests)
    /\ apiKey \in BOOLEAN
    /\ resultFile \in Files \cup {NoFile}

\* ------------------------------------------------------------ rendering
ClassifyButtonShown_WhileLoading(file, loading) == file # NoFile

\* {selectedFile && !isLoading && <button onClick={handleClassify}>}
ClassifyButtonShown(file, loading) == file # NoFile /\ ~loading

ResultCardShown_DespiteError(result, loading, err) == Truthy(result) /\ ~loading

\* {classificationResult && !isLoading && !error && <ResultCard>}
ResultCardShown(result, loading, err) == Truthy(result) /\ ~loading /\ ~Truthy(err)

\* The conditional elements of App's JSX for the given state.
Render(file, preview, result, loading, err) ==
    {e \in {"preview", "classifyButton", "spinner", "errorBanner", "resultCard",
            "apiKeyWarning"} :
        \/ e = "preview" /\ Truthy(preview)
        \/ e = "classifyButton" /\ ClassifyButtonShown(file, loading)
        \/ e = "spinner" /\ loading
        \/ e = "errorBanner" /\ Truthy(err)
        \/ e = "resultCard" /\ ResultCardShown(result, loading, err)
        \/ e = "apiKeyWarning" /\ ~apiKey}

\* React renders the new state when a handler has run.
Rerender ==
    view' = Render(selectedFile', imageBase64Preview', classificationResult',
                   isLoading', error')

Event(name, file, outcome, result) ==
    [name |-> name, file |-> file, outcome |-> outcome, result |-> result]

NoCall == [state |-> "none", outcome |-> NoOutcome, result |-> NoResult]

\* --------------------------------------------------------------- Init
\* The App as mounted: the useState initial values and the first render.
InitApp ==
    /\ selectedFile = NoFile
    /\ imageBase64Preview = Null
    /\ mimeType = Null
    /\ classificationResult = Null
    /\ isLoading = FALSE
    /\ error = Null
    /\ readers = EmptyBag
    /\ requests = EmptyBag
    /\ apiKey \in BOOLEAN
    /\ resultFile = NoFile
    /\ lastEvent = Event("init", NoFile, NoOutcome, NoResult)
    /\ view = Render(selectedFile, imageBase64Preview, classificationResult, isLoading, error)

Init == InitApp /\ call = NoCall

\* ------------------------------------------------------------ handlers
\* handleFileChange: the file input's change event, with the chosen file or
\* with none.
handleFileChange(file) ==
    /\ (file # NoFile /\ IsImageType(file.type)) => BagCardinality(readers) < MaxPendingReads
    /\ error' = IF file # NoFile /\ ~IsImageType(file.type) THEN MsgNotImage ELSE Null
    /\ classificationResult' = Null
    /\ resultFile' = NoFile
    /\ IF file # NoFile /\ IsImageType(file.type)
       THEN /\ selectedFile' = file
            /\ mimeType' = file.type
            /\ readers' = readers (+) SetToBag({file})
            /\ UNCHANGED imageBase64Preview
       ELSE /\ selectedFile' = NoFile
            /\ imageBase64Preview' = Null
            /\ mimeType' = Null
            /\ UNCHANGED readers
    /\ lastEvent' = Event("handleFileChange", file, NoOutcome, NoResult)
    /\ UNCHANGED <<isLoading, requests, apiKey, call>>
    /\ Rerender

\* reader.onloadend of handleFileChange's FileReader.
previewLoaded(file) ==
    /\ BagIn(file, readers)
    /\ readers' = readers (-) SetToBag({file})
    /\ imageBase64Preview' = readAsDataURL(file)
    /\ lastEvent' = Event("previewLoaded", file, NoOutcome, NoResult)
    /\ UNCHANGED <<selectedFile, mimeType, classificationResult, isLoading, error,
                   requests, apiKey, resultFile, call>>
    /\ Rerender

\* handleRemoveImage: the button inside the preview.
handleRemoveImage ==
    /\ "preview" \in view
    /\ selectedFile' = NoFile
    /\ imageBase64Preview' = Null
    /\ mimeType' = Null
    /\ classificationResult' = Null
    /\ resultFile' = NoFile
    /\ error' = Null
    /\ lastEvent' = Event("handleRemoveImage", NoFile, NoOutcome, NoResult)
    /\ UNCHANGED <<isLoading, readers, requests, apiKey, call>>
    /\ Rerender

\* handleClassify up to its first await: the click on the Classify button,
\* with the selectedFile and mimeType of the render that offered the button.
handleClassify ==
    /\ "classifyButton" \in view
    /\ IF selectedFile = NoFile \/ ~Truthy(mimeType)
       THEN /\ error' = MsgSelectFirst
            /\ UNCHANGED <<isLoading, classificationResult, resultFile, requests>>
       ELSE /\ isLoading' = TRUE
            /\ error' = Null
            /\ classificationResult' = Null
            /\ resultFile' = NoFile
            /\ requests' = requests (+) SetToBag({[file |-> selectedFile,
                               mimeType |-> mimeType, pc |-> "reading", data |-> Null]})
    /\ lastEvent' = Event("handleClassify", selectedFile, NoOutcome, NoResult)
    /\ UNCHANGED <<selectedFile, imageBase64Preview, mimeType, readers, apiKey, call>>
    /\ Rerender

\* The finally block: the value isLoading is left with.
LoadingAfter_NoFinally(result) == result.rejected

LoadingAfter(result) == FALSE

\* handleClassify after its awaits: the if (result.error) / else of the try
\* block, the catch block when a promise rejected, and the finally block.
resumeClassify(request, outcome, result) ==
    /\ requests' = requests (-) SetToBag({request})
    /\ IF result.rejected
       THEN /\ error' = MsgClassifyFailed
            /\ classificationResult' = UNKNOWN
       ELSE IF Truthy(result.error)
       THEN /\ error' = result.error
            /\ classificationResult' = UNKNOWN
       ELSE /\ classificationResult' = result.category
            /\ UNCHANGED error
    /\ isLoading' = LoadingAfter(result)
    /\ resultFile' = request.file
    /\ lastEvent' = Event("classified", request.file, outcome, result)
    /\ UNCHANGED <<selectedFile, imageBase64Preview, mimeType, readers, apiKey, call>>
    /\ Rerender

\* imageToBase64 settles: on a read error the catch block runs; otherwise
\* classifyWasteImage is called, which returns at once without an API key and
\* else sends the request.
imageRead(request) ==
    /\ BagIn(request, requests)
    /\ request.pc = "reading"
    /\ IF ~request.file.readable
       THEN resumeClassify(request, NoOutcome, Rejected)
       ELSE IF ~apiKey
       THEN resumeClassify(request, NoOutcome, classifyWasteImage(apiKey, NoOutcome))
       ELSE /\ requests' = (requests (-) SetToBag({request})) (+)
                   SetToBag({[request EXCEPT !.pc = "calling",
                                             !.data = imageToBase64(request.file)]})
            /\ lastEvent' = Event("imageRead", request.file, NoOutcome, NoResult)
            /\ UNCHANGED <<selectedFile, imageBase64Preview, mimeType, classificationResult,
                           isLoading, error, readers, apiKey, resultFile, call>>
            /\ Rerender

\* generateContent settles with a response text or a thrown value.
generateContentSettled(request, outcome) ==
    /\ BagIn(request, requests)
    /\ request.pc = "calling"
    /\ resumeClassify(request, outcome, classifyWasteImage(apiKey, outcome))

\* One step of the page: a user event, or a FileReader or promise settling,
\* generateContent settling with one of the given outcomes.
NextOver(outcomes) ==
    \/ \E file \in Files \cup {NoFile} : handleFileChange(file)
    \/ \E file \in Files : previewLoaded(file)
    \/ handleRemoveImage
    \/ handleClassify
    \/ \E request \in BagToSet(requests) : imageRead(request)
    \/ \E request \in BagToSet(requests), outcome \in outcomes :
           generateContentSettled(request, outcome)

Next == NextOver(AppOutcomes)

Spec == Init /\ [][Next]_vars

NextFair == NextOver(FairOutcomes)

\* The file read and the API call each eventually complete or fail.
FairSpec ==
    /\ Init
    /\ [][NextFair]_vars
    /\ WF_vars(\E request \in BagToSet(requests) : imageRead(request))
    /\ WF_vars(\E request \in BagToSet(requests), outcome \in FairOutcomes :
                   generateContentSettled(request, outcome))

\* --------------------------------------- classifyWasteImage on its own
InitService ==
    /\ InitApp
    /\ call \in {[state |-> "pending", outcome |-> o, result |-> NoResult] :
                   o \in ServiceOutcomes}

serviceCall ==
    /\ call.state = "pending"
    /\ call' = [state |-> "settled", outcome |-> call.outcome,
                result |-> classifyWasteImage(apiKey, call.outcome)]
    /\ UNCHANGED <<appVars, apiKey>>

SpecService == InitService /\ [][serviceCall]_vars

\* ================================================================ claims
\* The five keywords with their categories, in the order the claim gives.
Keywords ==
    << <<(* "plastic" *) <<112, 108, 97, 115, 116, 105, 99>>, PLASTIC>>,
       <<(* "paper" *) <<112, 97, 112, 101, 114>>, PAPER>>,
       <<(* "cardboard" *) <<99, 97, 114, 100, 98, 111, 97, 114, 100>>, CARDBOARD>>,
       <<(* "glass" *) <<103, 108, 97, 115, 115>>, GLASS>>,
       <<(* "metal" *) <<109, 101, 116, 97, 108>>, METAL>> >>

\* The positions in Keywords of the keywords the lower-cased text contains.
KeywordHits(text) ==
    {i \in 1..Len(Keywords) : includes(toLowerCase(text), Keywords[i][1])}

FirstHit(text) == CHOOSE i \in KeywordHits(text) : \A j \in KeywordHits(text) : i <= j

\* The last event is a completed classification whose model call answered
\* with a text.
ClassifiedText == lastEvent.name = "classified" /\ lastEvent.outcome.kind = "text"

\* C1: for every response text t (trimmed), classifyWasteImage returns t with
\* no error when t is one of the six labels; otherwise the category of the
\* first keyword (plastic, paper, cardboard, glass, metal) the lower-cased t
\* contains, with no error; and Unknown with an error only when it contains
\* no keyword.
C1_ClassifyContract ==
    (call.state = "settled" /\ apiKey /\ call.outcome.kind = "text") =>
        LET t == trim(call.outcome.text)
        IN  /\ ~call.result.rejected
            /\ t \in WasteCategory => call.result = Returned(t, Null)
            /\ (t \notin WasteCategory /\ KeywordHits(t) # {}) =>
                   call.result = Returned(Keywords[FirstHit(t)][2], Null)
            /\ (t \notin WasteCategory /\ KeywordHits(t) = {}) =>
                   /\ call.result.category = UNKNOWN
                   /\ call.result.error # Null
            /\ call.result.error # Null =>
                   (t \notin WasteCategory /\ KeywordHits(t) = {})

\* A response that is no label and contains both "paper" and "cardboard" was
\* classified Paper.
C1_Witness ==
    /\ call.state = "settled" /\ apiKey /\ call.outcome.kind = "text"
    /\ trim(call.outcome.text) \notin WasteCategory
    /\ {2, 3} \subseteq KeywordHits(trim(call.outcome.text))
    /\ call.result.category = PAPER

\* C2: the category classifyWasteImage returns is always one of the six
\* strings, for every response, failure or missing API key, and App's
\* classificationResult is always null or one of the six.
C2_ResultIsKnownCategory ==
    /\ classificationResult \in WasteCategory \cup {Null}
    /\ (lastEvent.name = "classified" /\ ~lastEvent.result.rejected) =>
           lastEvent.result.category \in WasteCategory

\* A response that is no label was mapped to a category by its keyword.
C2_Witness ==
    /\ ClassifiedText
    /\ trim(lastEvent.outcome.text) \notin WasteCategory
    /\ classificationResult \in WasteCategory \ {UNKNOWN}

\* C3: every error thrown by the model call is caught (classifyWasteImage
\* never rejects), and once handleClassify completes App's error is a
\* non-empty string shown in the error banner.
C3_ApiErrorsAreDisplayed ==
    (lastEvent.name = "classified" /\ lastEvent.outcome.kind = "throw") =>
        /\ ~lastEvent.result.rejected
        /\ IsString(error) /\ error # <<>>
        /\ "errorBanner" \in view

\* C4: at most one classification request is in flight: while isLoading is
\* true the Classify button is not offered, so no second handleClassify starts
\* before the pending request has completed.
C4_SingleRequestInFlight ==
    /\ BagCardinality(requests) <= 1
    /\ isLoading <=> (requests # EmptyBag)
    /\ isLoading => "classifyButton" \notin view

\* A request is in flight while the user has selected another file.
C4_Witness ==
    /\ isLoading
    /\ selectedFile # NoFile
    /\ \E request \in BagToSet(requests) : request.file # selectedFile

\* C5: a response that is none of the six labels and contains none of the
\* five keywords makes classifyWasteImage return Unknown with the non-empty
\* error 'Unexpected category: <text>', and when handleClassify completes
\* classificationResult is Unknown, the error is displayed and the result
\* card is not.
C5_UnexpectedOutputIsUnknown ==
    (/\ ClassifiedText
     /\ trim(lastEvent.outcome.text) \notin WasteCategory
     /\ KeywordHits(trim(lastEvent.outcome.text)) = {}) =>
        /\ lastEvent.result =
               Returned(UNKNOWN, MsgUnexpected \o trim(lastEvent.outcome.text))
        /\ lastEvent.result.error # <<>>
        /\ classificationResult = UNKNOWN
        /\ error = lastEvent.result.error
        /\ "errorBanner" \in view
        /\ "resultCard" \notin view

\* The response "x" was answered with 'Unexpected category: x'.
C5_Witness ==
    /\ ClassifiedText
    /\ lastEvent.outcome.text = (* "x" *) <<120>>
    /\ error = (* "Unexpected category: x" *) <<85, 110, 101, 120, 112, 101, 99, 116, 101, 100, 32, 99, 97, 116, 101, 103, 111, 114, 121, 58, 32, 120>>

\* C6: the result card is never displayed together with the error banner or
\* the loading spinner, and the Classify button never together with the
\* spinner.
C6_DisplayStatesExclusive ==
    /\ "resultCard" \in view => "errorBanner" \notin view /\ "spinner" \notin view
    /\ "classifyButton" \in view => "spinner" \notin view

\* A result and an error are both set: the banner is shown, the card is not.
C6_Witness ==
    /\ Truthy(classificationResult)
    /\ Truthy(error)
    /\ "errorBanner" \in view
    /\ "resultCard" \notin view

\* C7: selecting a file whose type does not start with 'image/' sets an error
\* and clears selectedFile, preview and mimeType; a classification is only
\* started with a selected file whose mimeType starts with 'image/', and that
\* file and type are what every request carries; selectedFile and mimeType
\* are both null or both non-null.
C7_OnlyImagesAreClassified ==
    /\ (/\ lastEvent.name = "handleFileChange"
        /\ lastEvent.file # NoFile
        /\ ~startsWith(lastEvent.file.type, (* "image/" *) <<105, 109, 97, 103, 101, 47>>)) =>
           /\ Truthy(error)
           /\ selectedFile = NoFile
           /\ imageBase64Preview = Null
           /\ mimeType = Null
    /\ lastEvent.name = "handleClassify" =>
           /\ selectedFile # NoFile
           /\ mimeType # Null
           /\ startsWith(mimeType, (* "image/" *) <<105, 109, 97, 103, 101, 47>>)
           /\ \E request \in BagToSet(requests) :
                  request.file = selectedFile /\ request.mimeType = mimeType
    /\ \A request \in BagToSet(requests) :
           /\ request.file \in Files
           /\ request.mimeType = request.file.type
           /\ startsWith(request.mimeType, (* "image/" *) <<105, 109, 97, 103, 101, 47>>)
           /\ request.pc = "calling" => request.data = request.file.data
    /\ (selectedFile = NoFile) <=> (mimeType = Null)

\* A file that is no image was chosen while a request was being sent.
C7_Witness ==
    /\ lastEvent.name = "handleFileChange"
    /\ lastEvent.file # NoFile
    /\ ~startsWith(lastEvent.file.type, (* "image/" *) <<105, 109, 97, 103, 101, 47>>)
    /\ \E request \in BagToSet(requests) : request.pc = "calling"

\* C8: whenever the result card is displayed its category was computed from
\* the currently selected file, and a request that completes does not show
\* its result or error against another selection or against none.
C8_ResultIsForSelectedFile ==
    /\ "resultCard" \in view => resultFile = selectedFile
    /\ lastEvent.name = "classified" => lastEvent.file = selectedFile

\* C9: whenever a preview is set, a file is selected and the preview was read
\* from that file.
C9_PreviewIsOfSelectedFile ==
    imageBase64Preview # Null =>
        /\ selectedFile # NoFile
        /\ imageBase64Preview = readAsDataURL(selectedFile)

\* C10: once isLoading is true it eventually becomes false, on every path and
\* whatever the user does meanwhile, provided the file read and the API call
\* each eventually settle; and when the classification has completed
\* classificationResult is not null.
C10_LoadingEnds ==
    /\ isLoading ~> (~isLoading /\ classificationResult # Null)
    /\ [](lastEvent.name = "classified" => ~isLoading /\ classificationResult # Null)

\* A classification whose promise rejected has completed after the user had
\* changed the selection.
C10_Witness ==
    /\ lastEvent.name = "classified"
    /\ lastEvent.result.rejected
    /\ lastEvent.file # selectedFile
    /\ ~isLoading
====
